---- MODULE Spec2Model ----
(***************************************************************************)
(* Model of app.py: the POST /generate request pipeline                   *)
(*   form -> (translate) -> enhance prompt -> inference POST              *)
(*        -> retry once on 503 -> decode image -> save -> render          *)
(* Strings that the code slices or concatenates (text, prompt, filename,   *)
(* path) are sequences of one-character strings.  Strings that are only    *)
(* compared or passed on (language codes, messages) are TLA+ strings.      *)
(* One request is handled at a time; the image directory and the clock     *)
(* persist from one request to the next.                                   *)
(***************************************************************************)
EXTENDS Integers, Sequences, FiniteSets, TLC

\* ------------------------------------------------------------------ bounds

\* How many requests the server handles in one run of the model.
MaxRequests == 2
\* The clock runs over TimeBase .. TimeBase + MaxTick (unix seconds).
TimeBase == 1700000000
MaxTick == 1

\* --------------------------------------------------------- program constants

RetryStatus == 503
OkStatus == 200
SleepSeconds == 20
SliceLen == 10
num_inference_steps == 50
guidance_scale_x10 == 85
width == 512
height == 512

MsgTranslate == "Failed to translate text. Please try again."
MsgGenerate == "Failed to generate image. Please try again in a few seconds."
MsgSave == "Failed to save generated image. Please try again."
MsgUnexpected == "An unexpected error occurred. Please try again."

\* ------------------------------------------------------------ python values

\* A str-or-None value (translation, form fields).
NoneStr == [some |-> FALSE, v |-> <<>>]
Str(s) == [some |-> TRUE, v |-> s]
\* What a call of generate_image hands its caller: an Image (identified by the
\* bytes it was decoded from), None, or an exception e that propagates.
NoneImg == [some |-> FALSE, v |-> "", exc |-> ""]
Img(b) == [some |-> TRUE, v |-> b, exc |-> ""]
RaisedImg(e) == [some |-> FALSE, v |-> "", exc |-> e]

\* A check that lets every translation through.
NotStr_never(x) == FALSE

\* `not x` for a str-or-None: None and the empty string are falsy.
NotStr(x) == (~x.some) \/ (x.v = <<>>)
\* A check that lets None through.
NotImg_never(x) == FALSE

\* `not x` for an Image-or-None: an Image object is always truthy.
NotImg(x) == ~x.some

\* ------------------------------------------------------------------ strings

RECURSIVE Join(_, _)
\* sep.join(parts)
Join(parts, sep) ==
  IF parts = <<>> THEN <<>>
  ELSE IF Len(parts) = 1 THEN parts[1]
  ELSE parts[1] \o sep \o Join(Tail(parts), sep)

\* s[:n]
Slice(s, n) == SubSeq(s, 1, IF Len(s) < n THEN Len(s) ELSE n)

Digit(d) == <<"0", "1", "2", "3", "4", "5", "6", "7", "8", "9">>[d + 1]

RECURSIVE IntToStr(_)
\* str(n) for n >= 0, as the f-string formats the timestamp
IntToStr(n) == IF n < 10 THEN <<Digit(n)>> ELSE IntToStr(n \div 10) \o <<Digit(n % 10)>>

enhancements ==
  << <<"h", "i", "g", "h", "l", "y", " ", "d", "e", "t", "a", "i", "l", "e", "d">>,
     <<"p", "h", "o", "t", "o", "r", "e", "a", "l", "i", "s", "t", "i", "c">>,
     <<"8", "k", " ", "r", "e", "s", "o", "l", "u", "t", "i", "o", "n">>,
     <<"p", "r", "o", "f", "e", "s", "s", "i", "o", "n", "a", "l", " ",
       "p", "h", "o", "t", "o", "g", "r", "a", "p", "h", "y">>,
     <<"n", "a", "t", "u", "r", "a", "l", " ", "l", "i", "g", "h", "t", "i", "n", "g">> >>

\* An enhancer that joins the tags without the space.
enhance_prompt_nospace(prompt) == prompt \o <<",">> \o Join(enhancements, <<",">>)

\* f"{prompt}, {', '.join(enhancements)}"
enhance_prompt(prompt) == prompt \o <<",", " ">> \o Join(enhancements, <<",", " ">>)

\* The JSON body of the inference POST.
Payload(enhanced_prompt) ==
  [inputs |-> enhanced_prompt,
   parameters |-> [num_inference_steps |-> num_inference_steps,
                   guidance_scale_x10 |-> guidance_scale_x10,
                   width |-> width,
                   height |-> height]]

ImagesDir == <<"s", "t", "a", "t", "i", "c", "/", "i", "m", "a", "g", "e", "s">>

\* os.path.join('static', 'images', filename): an absolute last component
\* discards the components before it.
os_path_join(filename) ==
  IF filename # <<>> /\ filename[1] = "/" THEN filename
  ELSE ImagesDir \o <<"/">> \o filename

\* The positions of "/" in a path.
Slashes(path) == {i \in 1..Len(path) : path[i] = "/"}

\* os.path.dirname(path); <<>> stands for the root (or current) directory.
Dirname(path) ==
  IF Slashes(path) = {} THEN <<>>
  ELSE LET last == CHOOSE i \in Slashes(path) : \A j \in Slashes(path) : j <= i
       IN SubSeq(path, 1, last - 1)

RECURSIVE UrlQuote(_)
\* The percent-encoding url_for applies to the path: of the characters the
\* model uses only the space is unsafe.
UrlQuote(s) ==
  IF s = <<>> THEN <<>>
  ELSE (IF s[1] = " " THEN <<"%", "2", "0">> ELSE <<s[1]>>) \o UrlQuote(Tail(s))

\* url_for('static', filename=f'images/{filename}')
url_for_static(filename) ==
  <<"/", "s", "t", "a", "t", "i", "c", "/">>
    \o UrlQuote(<<"i", "m", "a", "g", "e", "s", "/">> \o filename)

RECURSIVE Unquote(_)
\* The decoding the static route applies to the requested path.
Unquote(s) ==
  IF s = <<>> THEN <<>>
  ELSE IF Len(s) >= 3 /\ SubSeq(s, 1, 3) = <<"%", "2", "0">>
       THEN <<" ">> \o Unquote(SubSeq(s, 4, Len(s)))
  ELSE <<s[1]>> \o Unquote(Tail(s))

RECURSIVE NormPath(_)
\* The static route's path clean-up: a run of slashes counts as one.
NormPath(s) ==
  IF Len(s) < 2 THEN s
  ELSE IF s[1] = "/" /\ s[2] = "/" THEN NormPath(Tail(s))
  ELSE <<s[1]>> \o NormPath(Tail(s))

\* The file that Flask(__name__, static_folder='static') serves for a URL
\* under /static/, relative to the directory the images are saved from.
StaticFile(url) ==
  <<"s", "t", "a", "t", "i", "c", "/">> \o NormPath(Unquote(SubSeq(url, 9, Len(url))))

\* ------------------------------------------------------------------- inputs

T_empty == <<>>
T_cat == <<"c", "a", "t">>
T_dog == <<"d", "o", "g">>
T_hello == <<"H", "e", "l", "l", "o", " ", "W", "o", "r", "l", "d", " ",
             "t", "h", "i", "s", " ", "i", "s", " ", "l", "o", "n", "g">>
T_hello2 == <<"H", "e", "l", "l", "o", " ", "W", "o", "r", "l", "d", " ",
              "a", "g", "a", "i", "n">>
T_abs == <<"/", "x">>
T_sub == <<"a", "/", "b">>

\* Values of the `text` form field.
Texts == {T_empty, T_cat, T_hello, T_hello2, T_abs, T_sub}
\* Values of the `language` form field.
Languages == {"en", "fr"}

\* A submitted form: each field is present or absent.
Forms ==
  [text : {NoneStr} \cup {Str(t) : t \in Texts},
   language : {[some |-> FALSE, v |-> ""]} \cup {[some |-> TRUE, v |-> l] : l \in Languages}]

\* What GoogleTranslator(...).translate(text) does: raises, or returns a string.
TranslatorOutcomes ==
  {[exc |-> "TranslationError", val |-> NoneStr],
   [exc |-> "", val |-> Str(T_empty)],
   [exc |-> "", val |-> Str(T_dog)]}

\* Response bodies; Image.open accepts the first two.
ImageBodies == {"PNG_A", "PNG_B"}

\* What requests.post does: raises (timeout, transport error), or returns a response.
PostOutcomes ==
  {[exc |-> "Timeout", status_code |-> 0, content |-> ""],
   [exc |-> "ConnectionError", status_code |-> 0, content |-> ""],
   [exc |-> "", status_code |-> 200, content |-> "PNG_A"],
   [exc |-> "", status_code |-> 200, content |-> "PNG_B"],
   [exc |-> "", status_code |-> 200, content |-> "garbage"],
   [exc |-> "", status_code |-> 503, content |-> "loading"],
   [exc |-> "", status_code |-> 500, content |-> "error"]}

NoResponse == [exc |-> "", status_code |-> 0, content |-> ""]
NoPayload == [inputs |-> <<>>,
              parameters |-> [num_inference_steps |-> 0, guidance_scale_x10 |-> 0,
                              width |-> 0, height |-> 0]]

Times == TimeBase .. (TimeBase + MaxTick)

\* -------------------------------------------------------------------- state

VARIABLES
  pc,               \* where the handler is: idle, translating, post1, sleep, post2,
                    \* makedirs, save, done; adapter_called, adapter_returned
  form,             \* request.form of the request being handled
  text,             \* generate: text
  language,         \* generate: language
  translation,      \* generate: translation
  payload,          \* generate_image: payload
  response,         \* generate_image: response (the last one received)
  generated_image,  \* generate: generated_image
  timestamp,        \* generate: timestamp
  filename,         \* generate: filename
  image_path,       \* generate: image_path
  rendered,         \* what the handler returned (or raised)
  trace,            \* the outbound calls and effects of this request, in order
  files,            \* the image files on disk: a set of [path, image]
  dirExists,        \* whether static/images exists
  now,              \* the clock, unix seconds
  files_before,     \* observation: the files on disk when this request arrived
  writes,           \* observation: the successful saves so far, in order
  served            \* number of requests answered

locals == <<form, text, language, translation, payload, response, generated_image,
            timestamp, filename, image_path>>
disk == <<files, dirExists>>
\* What the steps between receiving a request and answering it leave alone.
rest == <<files_before, writes, served>>
vars == <<pc, form, text, language, translation, payload, response, generated_image,
          timestamp, filename, image_path, rendered, trace, files, dirExists, now,
          files_before, writes, served>>

\* An entry of trace.
Ev(op, n, s, k) == [op |-> op, n |-> n, s |-> s, k |-> k]

\* ---------------------------------------------------------- handler results

\* A filename cut from the translated text.
Filename_fromTranslation(raw, ts) ==
  Slice(translation.v, SliceLen) \o <<"_">> \o IntToStr(ts) \o <<".", "p", "n", "g">>

\* A filename without the timestamp.
Filename_noTimestamp(raw, ts) == Slice(raw, SliceLen) \o <<".", "p", "n", "g">>

\* f"{text[:10]}_{timestamp}.png"
Filename(raw, ts) ==
  Slice(raw, SliceLen) \o <<"_">> \o IntToStr(ts) \o <<".", "p", "n", "g">>

NoRender == [state |-> "none", keys |-> {}, error |-> "", image_path |-> <<>>, exc |-> ""]
\* render_template('index.html', error=msg)
RenderError(msg) ==
  [state |-> "rendered", keys |-> {"error"}, error |-> msg, image_path |-> <<>>, exc |-> ""]
\* render_template('index.html', image_path=url)
RenderImage(url) ==
  [state |-> "rendered", keys |-> {"image_path"}, error |-> "", image_path |-> url, exc |-> ""]
\* An exception that leaves the handler.
Raised(e) == [state |-> "raised", keys |-> {}, error |-> "", image_path |-> <<>>, exc |-> e]

\* A handler without the outer except clause.
OuterExcept_reraise(e) == Raised(e)

\* generate's outer `except Exception` clause.
OuterExcept(e) == RenderError(MsgUnexpected)

\* An index that gives None for an absent field, as request.form.get does.
FormIndex_get(field) == [exc |-> "", val |-> field]

\* request.form[key]: the field, or BadRequestKeyError when it is absent.
FormIndex(field) ==
  IF field.some THEN [exc |-> "", val |-> field]
  ELSE [exc |-> "BadRequestKeyError", val |-> NoneStr]

\* request.form.get(key, default)
form_get(field, default) == IF field.some THEN field.v ELSE default

\* A handler that translates whatever the language.
NeedsTranslation_always(lang) == TRUE

\* The condition of line 131: the adapter is called unless the language is "en".
NeedsTranslation(lang) == lang # "en"

\* An adapter that falls back to the untranslated text.
get_translation_fallback(t, source_lang, outcome) ==
  IF outcome.exc # "" THEN Str(t) ELSE outcome.val

\* get_translation: the value returned, given what the translator did.
get_translation(t, source_lang, outcome) ==
  IF outcome.exc # "" THEN NoneStr ELSE outcome.val

\* The call get_translation makes to the translation service, and its outcome.
TranslatorCall(t, source_lang) == Ev("translate", 0, t, source_lang)
TranslatorDone(o) == Ev("translate_done", 0, o.val.v, o.exc)

\* A decoder that accepts any bytes.
Image_open_ok_always(content) == TRUE

\* Image.open(BytesIO(content)) succeeds.
Image_open_ok(content) == content \in ImageBodies

\* A retry on every status other than 200.
ShouldRetry_non200(resp) == resp.status_code # OkStatus

\* generate_image: whether the first response triggers the retry.
ShouldRetry(resp) == resp.status_code = RetryStatus

\* generate_image, from the status check on: the image, or None.
HandleResponse(resp) ==
  IF resp.status_code # OkStatus THEN NoneImg
  ELSE IF Image_open_ok(resp.content) THEN Img(resp.content)
  ELSE NoneImg

\* Except clauses that let the exception through.
GenerateExcept_reraise(e) == RaisedImg(e)

\* generate_image's except clauses: what an exception raised inside turns into.
GenerateExcept(e) == NoneImg

\* generate_image: the result of one POST that is not retried.
PostResult(r) == IF r.exc # "" THEN GenerateExcept(r.exc) ELSE HandleResponse(r)

\* A retry whose response is dropped.
RetryResponse_stale(first, second) == first

\* generate_image, line 75: the retry's response replaces the first one.
RetryResponse(first, second) == second

\* The requests.post call and what came back.
PostEv(p, r) == Ev("post", r.status_code, p.inputs, IF r.exc # "" THEN r.exc ELSE r.content)

\* generated_image.save(image_path) on the disk.
WriteFile(fs, path, image) ==
  {f \in fs : f.path # path} \cup {[path |-> path, image |-> image]}

\* Directories that exist: the root (<<>>) and, once created, static/images.
ExistingDirs == {<<>>} \cup (IF dirExists THEN {ImagesDir} ELSE {})

\* ------------------------------------------------------------------ actions

Init ==
  /\ pc = "idle"
  /\ form = [text |-> NoneStr, language |-> [some |-> FALSE, v |-> ""]]
  /\ text = NoneStr
  /\ language = ""
  /\ translation = NoneStr
  /\ payload = NoPayload
  /\ response = NoResponse
  /\ generated_image = NoneImg
  /\ timestamp = 0
  /\ filename = <<>>
  /\ image_path = <<>>
  /\ rendered = NoRender
  /\ trace = <<>>
  /\ files = {}
  /\ dirExists \in BOOLEAN
  /\ now = TimeBase
  /\ files_before = {}
  /\ writes = <<>>
  /\ served = 0

\* The handler returns r (every return statement of generate).
Return(r, tr) ==
  /\ rendered' = r
  /\ pc' = "done"
  /\ trace' = Append(tr, Ev("render", 0, r.image_path, r.state))

\* generate, lines 133-139: the translation check, then generate_image begins.
AfterTranslation(tl, tr) ==
  /\ translation' = tl
  /\ IF NotStr(tl)
     THEN /\ Return(RenderError(MsgTranslate), tr)
          /\ UNCHANGED payload
     ELSE /\ payload' = Payload(enhance_prompt(tl.v))
          /\ pc' = "post1"
          /\ trace' = tr
          /\ UNCHANGED rendered

\* generate, lines 125-131: read the form, call the adapter unless "en".
Receive(f) ==
  /\ pc = "idle"
  /\ served < MaxRequests
  /\ form' = f
  /\ files_before' = files
  /\ IF FormIndex(f.text).exc # ""
     THEN /\ Return(OuterExcept(FormIndex(f.text).exc), trace)
          /\ UNCHANGED <<text, language, translation, payload>>
     ELSE /\ text' = FormIndex(f.text).val
          /\ language' = form_get(f.language, "en")
          /\ IF NeedsTranslation(language')
             THEN /\ pc' = "translating"
                  /\ trace' = Append(trace, TranslatorCall(text'.v, language'))
                  /\ UNCHANGED <<translation, payload, rendered>>
             ELSE AfterTranslation(text', trace)
  /\ UNCHANGED <<response, generated_image, timestamp, filename, image_path, disk, now,
                 writes, served>>

\* get_translation returns; generate goes on from line 133.
TranslateReturn(o) ==
  /\ pc = "translating"
  /\ AfterTranslation(get_translation(text.v, language, o), Append(trace, TranslatorDone(o)))
  /\ UNCHANGED <<form, text, language, response, generated_image, timestamp, filename,
                 image_path, disk, now, rest>>

\* generate, lines 139-143: generate_image returned g.
AfterGenerate(g, tr) ==
  /\ generated_image' = g
  /\ IF g.exc # ""
     THEN Return(OuterExcept(g.exc), tr)
     ELSE IF NotImg(g)
     THEN Return(RenderError(MsgGenerate), tr)
     ELSE /\ pc' = "makedirs"
          /\ trace' = tr
          /\ UNCHANGED rendered

\* generate_image, lines 66-96: the first POST.
Post1(r) ==
  /\ pc = "post1"
  /\ response' = r
  /\ LET tr == Append(trace, PostEv(payload, r)) IN
       IF r.exc = "" /\ ShouldRetry(r)
       THEN /\ pc' = "sleep"
            /\ trace' = tr
            /\ UNCHANGED <<generated_image, rendered>>
       ELSE AfterGenerate(PostResult(r), tr)
  /\ UNCHANGED <<form, text, language, translation, payload, timestamp, filename,
                 image_path, disk, now, rest>>

\* generate_image, line 74: time.sleep(20).
Sleep ==
  /\ pc = "sleep"
  /\ pc' = "post2"
  /\ trace' = Append(trace, Ev("sleep", SleepSeconds, <<>>, ""))
  /\ UNCHANGED <<locals, rendered, disk, now, rest>>

\* generate_image, lines 75-96: the retry POST and what follows it.
RetryStep(r) ==
  /\ pc = "post2"
  /\ response' = (IF r.exc # "" THEN response ELSE RetryResponse(response, r))
  /\ AfterGenerate(IF r.exc # "" THEN GenerateExcept(r.exc) ELSE HandleResponse(response'),
                   Append(trace, PostEv(payload, r)))
  /\ UNCHANGED <<form, text, language, translation, payload, timestamp, filename,
                 image_path, disk, now, rest>>

\* A retry that sleeps and posts again for as long as the answer is 503
\* (`while` for the `if` of line 72); trace keeps one round of the loop.
Post2_loop(r) ==
  IF r.exc = "" /\ ShouldRetry(r)
  THEN /\ pc = "post2"
       /\ pc' = "sleep"
       /\ trace' = SubSeq(trace, 1, Len(trace) - 1)
       /\ UNCHANGED <<locals, rendered, disk, now, rest>>
  ELSE RetryStep(r)

\* generate_image, lines 75-96: the retry POST; its status is not tested for 503.
Post2(r) == RetryStep(r)

\* generate, lines 146-151: os.makedirs(exist_ok=True), then the filename.
Makedirs(ok) ==
  /\ pc = "makedirs"
  /\ dirExists => ok
  /\ IF ~ok
     THEN /\ Return(OuterExcept("OSError"), Append(trace, Ev("makedirs", 0, ImagesDir, "OSError")))
          /\ UNCHANGED <<timestamp, filename, image_path, dirExists, now>>
     ELSE /\ dirExists' = TRUE
          /\ \E t \in Times :
               /\ t >= now
               /\ now' = t
               /\ timestamp' = t
               /\ filename' = Filename(text.v, t)
               /\ image_path' = os_path_join(Filename(text.v, t))
          /\ pc' = "save"
          /\ trace' = Append(trace, Ev("makedirs", 0, ImagesDir, "ok"))
          /\ UNCHANGED rendered
  /\ UNCHANGED <<form, text, language, translation, payload, response, generated_image,
                 files, rest>>

\* generate, lines 153-162: save the image, then render its URL.
Save(ok) ==
  /\ pc = "save"
  /\ ok => Dirname(image_path) \in ExistingDirs
  /\ IF ~ok
     THEN /\ Return(RenderError(MsgSave), Append(trace, Ev("save", timestamp, image_path, "OSError")))
          /\ UNCHANGED <<files, writes>>
     ELSE /\ files' = WriteFile(files, image_path, generated_image.v)
          /\ writes' = Append(writes, [raw |-> text.v, ts |-> timestamp, path |-> image_path,
                                       image |-> generated_image.v,
                                       url |-> url_for_static(filename)])
          /\ Return(RenderImage(url_for_static(filename)),
                    Append(trace, Ev("save", timestamp, image_path, "ok")))
  /\ UNCHANGED <<locals, dirExists, now, files_before, served>>

\* The response goes out; the handler's locals are gone.
Respond ==
  /\ pc = "done"
  /\ pc' = "idle"
  /\ served' = served + 1
  /\ form' = [text |-> NoneStr, language |-> [some |-> FALSE, v |-> ""]]
  /\ text' = NoneStr
  /\ language' = ""
  /\ translation' = NoneStr
  /\ payload' = NoPayload
  /\ response' = NoResponse
  /\ generated_image' = NoneImg
  /\ timestamp' = 0
  /\ filename' = <<>>
  /\ image_path' = <<>>
  /\ rendered' = NoRender
  /\ trace' = <<>>
  /\ files_before' = files
  /\ UNCHANGED <<disk, now, writes>>

Next ==
  \/ \E f \in Forms : Receive(f)
  \/ \E o \in TranslatorOutcomes : TranslateReturn(o)
  \/ \E r \in PostOutcomes : Post1(r)
  \/ Sleep
  \/ \E r \in PostOutcomes : Post2(r)
  \/ \E ok \in BOOLEAN : Makedirs(ok)
  \/ \E ok \in BOOLEAN : Save(ok)
  \/ Respond

Spec == Init /\ [][Next]_vars

\* What the code guarantees to finish: requests.post has timeout=60, so each
\* POST returns or raises; time.sleep(20), os.makedirs and save return or
\* raise.  The translation call has no timeout and a request need not arrive:
\* neither TranslateReturn nor Receive is fair.
Fairness ==
  /\ WF_vars(\E r \in PostOutcomes : Post1(r))
  /\ WF_vars(Sleep)
  /\ WF_vars(\E r \in PostOutcomes : Post2(r))
  /\ WF_vars(\E ok \in BOOLEAN : Makedirs(ok))
  /\ WF_vars(\E ok \in BOOLEAN : Save(ok))
  /\ WF_vars(Respond)

SpecLive == Init /\ [][Next]_vars /\ Fairness

\* ------------------------------------------------- get_translation on its own

\* get_translation(t, l) called directly, with any language code.
AdapterCall(t, l) ==
  /\ pc = "idle"
  /\ served < MaxRequests
  /\ text' = Str(t)
  /\ language' = l
  /\ pc' = "adapter_called"
  /\ trace' = Append(trace, TranslatorCall(t, l))
  /\ files_before' = files
  /\ UNCHANGED <<form, translation, payload, response, generated_image, timestamp,
                 filename, image_path, rendered, disk, now, writes, served>>

\* The direct call returns.
AdapterReturn(o) ==
  /\ pc = "adapter_called"
  /\ translation' = get_translation(text.v, language, o)
  /\ pc' = "adapter_returned"
  /\ trace' = Append(trace, TranslatorDone(o))
  /\ UNCHANGED <<form, text, language, payload, response, generated_image, timestamp,
                 filename, image_path, rendered, disk, now, rest>>

\* The caller drops the result.
AdapterReset ==
  /\ pc = "adapter_returned"
  /\ pc' = "idle"
  /\ served' = served + 1
  /\ text' = NoneStr
  /\ language' = ""
  /\ translation' = NoneStr
  /\ trace' = <<>>
  /\ UNCHANGED <<form, payload, response, generated_image, timestamp, filename,
                 image_path, rendered, disk, now, files_before, writes>>

NextAdapter ==
  \/ \E t \in Texts, l \in Languages : AdapterCall(t, l)
  \/ \E o \in TranslatorOutcomes : AdapterReturn(o)
  \/ AdapterReset

\* The server, and get_translation also called on its own.
SpecAdapter == Init /\ [][Next \/ NextAdapter]_vars

\* ------------------------------------------------------------- observations

HandlerPcs == {"idle", "translating", "post1", "sleep", "post2", "makedirs", "save", "done"}

TypeOK ==
  /\ pc \in HandlerPcs \cup {"adapter_called", "adapter_returned"}
  /\ served \in 0..MaxRequests
  /\ now \in Times

IsPost(e) == e.op = "post"
IsTranslate(e) == e.op = "translate"
\* The inference POSTs of this request, in order.
Posts == SelectSeq(trace, IsPost)
\* The translation-service calls of this request.
Translates == SelectSeq(trace, IsTranslate)
\* The positions of the events of kind op in trace.
At(op) == {i \in 1..Len(trace) : trace[i].op = op}
\* generate_image has returned to the handler.
Generated == pc \in {"makedirs", "save", "done"} /\ Posts # <<>>
LastPost == Posts[Len(Posts)]

\* ------------------------------------------------------------------- claims

\* C1: a call of generate_image issues at most two POSTs; there is a second
\* POST exactly when the first response had status 503, the 20-second sleep
\* comes between the two, and nothing follows the second POST whatever its
\* response.
C1_AtMostOneRetry ==
  /\ Len(Posts) <= 2
  /\ Cardinality(At("sleep")) <= 1
  /\ Len(Posts) = 2 =>
       /\ Posts[1].n = 503
       /\ \E i \in 1..Len(trace) :
            /\ i + 2 <= Len(trace)
            /\ trace[i].op = "post"
            /\ trace[i + 1] = Ev("sleep", 20, <<>>, "")
            /\ trace[i + 2].op = "post"
  /\ (Generated /\ Posts[1].n = 503) => Len(Posts) = 2
  /\ (pc \in {"sleep", "post2"}) => (Len(Posts) = 1 /\ Posts[1].n = 503)

\* C1 witness: the retry was answered 503 again and generate_image has returned.
C1_Witness ==
  /\ pc = "done"
  /\ Len(Posts) = 2
  /\ Posts[2].n = 503

\* C2: 503 on the first attempt and then 200 with valid image bytes makes
\* generate_image return the image decoded from the second body, after
\* exactly one retry.
C2_RetrySucceeds ==
  (Len(Posts) >= 2 /\ Posts[1].n = 503 /\ Posts[2].n = 200 /\ Posts[2].k \in ImageBodies)
    => /\ generated_image = Img(Posts[2].k)
       /\ Len(Posts) = 2
       /\ Cardinality(At("sleep")) = 1
       /\ pc \in {"makedirs", "save", "done"}

\* C2 witness: the image of the retry is in the handler's hands.
C2_Witness ==
  /\ pc = "makedirs"
  /\ Len(Posts) = 2
  /\ Posts[1].n = 503
  /\ Posts[2].n = 200
  /\ generated_image = Img("PNG_B")

\* C3: 503 on both attempts makes generate_image return None and the handler
\* end with the generation-failure message; no third POST, no file written.
C3_TwoLoading ==
  (Len(Posts) >= 2 /\ Posts[1].n = 503 /\ Posts[2].n = 503)
    => /\ pc = "done"
       /\ Len(Posts) = 2
       /\ generated_image = NoneImg
       /\ rendered = RenderError("Failed to generate image. Please try again in a few seconds.")
       /\ At("save") = {}
       /\ files = files_before

\* C3 witness: two 503 responses, with a file of an earlier request on disk.
C3_Witness ==
  /\ pc = "done"
  /\ Len(Posts) = 2
  /\ Posts[1].n = 503
  /\ Posts[2].n = 503
  /\ files # {}

\* C4: when the last response is 200 with a body that is no image,
\* generate_image returns None as for an HTTP error, the handler reports the
\* generation failure and nothing is saved.
C4_UndecodableBody ==
  (Posts # <<>> /\ LastPost.n = 200 /\ LastPost.k \notin ImageBodies)
    => /\ pc = "done"
       /\ generated_image = NoneImg
       /\ rendered = RenderError("Failed to generate image. Please try again in a few seconds.")
       /\ At("save") = {}
       /\ files = files_before

\* C4 witness: the retry is answered 200 with bytes that do not decode.
C4_Witness ==
  /\ pc = "done"
  /\ Len(Posts) = 2
  /\ LastPost.n = 200
  /\ LastPost.k = "garbage"

\* C5: generate_image never raises; a timeout or a transport error on the
\* first POST or on the retry gives None, and the handler answers as for any
\* other generation failure.
C5_NeverRaises ==
  /\ generated_image.exc = ""
  /\ (Posts # <<>> /\ LastPost.k \in {"Timeout", "ConnectionError"})
       => /\ pc = "done"
          /\ generated_image = NoneImg
          /\ rendered = RenderError("Failed to generate image. Please try again in a few seconds.")

\* C5 witness: the retry POST timed out.
C5_Witness ==
  /\ pc = "done"
  /\ Len(Posts) = 2
  /\ LastPost.k = "Timeout"
  /\ generated_image = NoneImg

\* C6 (as amended): a request with language "en" uses its text unchanged as
\* the translation and makes no call to the translation service; the test is
\* the handler's, and get_translation called on its own calls the service
\* once whatever the language.
C6_HandlerSkipsEnglish ==
  /\ (pc \in HandlerPcs \ {"idle"} /\ text.some /\ language = "en")
       => (translation = text /\ Translates = <<>>)
  /\ (pc = "adapter_returned") => Len(Translates) = 1

\* C6 witness: an "en" request has reached the inference call untranslated.
C6_Witness ==
  /\ pc = "post1"
  /\ language = "en"
  /\ text = Str(T_hello)
  /\ translation = text
  /\ Translates = <<>>

\* C6 (as stated): get_translation given (t, "en") returns t unchanged and
\* makes no call to the translation service.
C6_AdapterSkipsEnglish ==
  (pc = "adapter_returned" /\ language = "en")
    => (translation = text /\ Translates = <<>>)

\* C7: a request without the text field ends in an error response with no
\* translation call, no inference POST, no directory creation and no file
\* write.
C7_MissingText ==
  (pc # "idle" /\ ~form.text.some)
    => /\ pc = "done"
       /\ rendered.state = "rendered"
       /\ rendered.keys = {"error"}
       /\ At("translate") = {}
       /\ At("post") = {}
       /\ At("makedirs") = {}
       /\ At("save") = {}
       /\ files = files_before

\* C7 witness: a form with a non-English language and no text was answered.
C7_Witness ==
  /\ pc = "done"
  /\ ~form.text.some
  /\ form.language = [some |-> TRUE, v |-> "fr"]
  /\ rendered.keys = {"error"}

\* C8: whatever the translation, the inference calls, the directory creation
\* and the file write do, what the handler returns is a rendered page with
\* exactly one of an error message or an image path; no exception leaves it.
C8_AlwaysRenders ==
  /\ (pc = "done") =>
       /\ rendered.state = "rendered"
       /\ rendered.keys \in {{"error"}, {"image_path"}}
       /\ ("error" \in rendered.keys) => (rendered.error # "" /\ rendered.image_path = <<>>)
       /\ ("image_path" \in rendered.keys) => (rendered.image_path # <<>> /\ rendered.error = "")
  /\ (pc # "done") => rendered = NoRender

\* C8 witness: os.makedirs raised and the handler still rendered an error.
C8_Witness ==
  /\ pc = "done"
  /\ \E i \in At("makedirs") : trace[i].k = "OSError"
  /\ rendered.keys = {"error"}

\* C9: when the translation service raises, the handler ends with the
\* translation-failure message, having called the service exactly once,
\* issued no inference POST and written no file.
C9_TranslationFails ==
  (\E i \in At("translate_done") : trace[i].k # "")
    => /\ pc = "done"
       /\ language # "en"
       /\ rendered = RenderError("Failed to translate text. Please try again.")
       /\ Len(Translates) = 1
       /\ At("post") = {}
       /\ At("makedirs") = {}
       /\ At("save") = {}
       /\ files = files_before

\* C9 witness: the translation of a long text failed, with a file on disk.
C9_Witness ==
  /\ pc = "done"
  /\ text = Str(T_hello)
  /\ \E i \in At("translate_done") : trace[i].k # ""
  /\ files # {}

\* C10 (as stated): a failure to create the image directory or to write the
\* image file ends the request with the save-failure message and no other.
C10_SaveStageMessage ==
  (pc = "done" /\ \E i \in At("makedirs") \cup At("save") : trace[i].k # "ok")
    => rendered = RenderError("Failed to save generated image. Please try again.")

RECURSIVE DigitsValue(_)
\* The number a string of decimal digits denotes; -1 when it is no such string.
DigitsValue(ds) ==
  IF ds = <<>> THEN -1
  ELSE LET last == ds[Len(ds)]
           d == IF \E k \in 0..9 : Digit(k) = last
                THEN CHOOSE k \in 0..9 : Digit(k) = last ELSE -1
           front == SubSeq(ds, 1, Len(ds) - 1)
       IN IF d = -1 THEN -1
          ELSE IF front = <<>> THEN d
          ELSE LET hi == DigitsValue(front)
               IN IF hi = -1 THEN -1 ELSE 10 * hi + d

\* The request has reached Saving: makedirs succeeded and the filename is set.
ReachedSaving == \E i \in At("makedirs") : trace[i].k = "ok"

\* C11: once a request reaches Saving with raw text r and timestamp ts, its
\* filename is the first 10 characters of r (all of r when it is shorter; never
\* the translated text), then "_", then ts in decimal, then ".png".
C11_FilenameFromRawText ==
  ReachedSaving =>
    LET r == form.text.v
        k == IF Len(r) < 10 THEN Len(r) ELSE 10
        n == Len(filename)
    IN /\ n > k + 5
       /\ \A i \in 1..k : filename[i] = r[i]
       /\ filename[k + 1] = "_"
       /\ DigitsValue(SubSeq(filename, k + 2, n - 4)) = timestamp
       /\ SubSeq(filename, n - 3, n) = <<".", "p", "n", "g">>
       /\ (r = T_hello /\ timestamp = 1700000000) =>
            filename = <<"H", "e", "l", "l", "o", " ", "W", "o", "r", "l", "_",
                         "1", "7", "0", "0", "0", "0", "0", "0", "0", "0",
                         ".", "p", "n", "g">>

\* C11 witness: a translated long text is about to be saved.
C11_Witness ==
  /\ pc = "save"
  /\ form.text.v = T_hello
  /\ translation = Str(T_dog)
  /\ timestamp = 1700000000

\* The text the enhancer appends.
C12_Suffix ==
  <<",", " ", "h", "i", "g", "h", "l", "y", " ", "d", "e", "t", "a", "i", "l", "e", "d",
    ",", " ", "p", "h", "o", "t", "o", "r", "e", "a", "l", "i", "s", "t", "i", "c",
    ",", " ", "8", "k", " ", "r", "e", "s", "o", "l", "u", "t", "i", "o", "n",
    ",", " ", "p", "r", "o", "f", "e", "s", "s", "i", "o", "n", "a", "l", " ",
    "p", "h", "o", "t", "o", "g", "r", "a", "p", "h", "y",
    ",", " ", "n", "a", "t", "u", "r", "a", "l", " ", "l", "i", "g", "h", "t", "i", "n", "g">>

\* C12: the inputs of every inference POST, first attempt and retry alike, are
\* the (possibly translated) text followed once by ", highly detailed,
\* photorealistic, 8k resolution, professional photography, natural lighting".
C12_EnhancedOnce ==
  \A i \in 1..Len(Posts) : Posts[i].s = translation.v \o C12_Suffix

\* C12 witness: a translated prompt was posted twice.
C12_Witness ==
  /\ Len(Posts) = 2
  /\ translation = Str(T_dog)
  /\ text = Str(T_cat)
  /\ Posts[1].s = Posts[2].s

\* C13 (as stated): a request with a text field and language "en" skips the
\* translation, goes on to the inference call with the raw text as prompt and
\* never ends with the translation-failure message.
C13_EnglishNeverFailsTranslation ==
  (pc \in HandlerPcs \ {"idle"} /\ form.text.some /\ language = "en")
    => /\ Translates = <<>>
       /\ translation = form.text
       /\ payload.inputs = form.text.v \o C12_Suffix
       /\ rendered # RenderError("Failed to translate text. Please try again.")

\* The stage an event of the trace belongs to.
StageOf(op) ==
  CASE op \in {"translate", "translate_done"} -> 1
    [] op \in {"post", "sleep"} -> 2
    [] op = "makedirs" -> 3
    [] op = "save" -> 4
    [] OTHER -> 5

\* C14 (as stated): the events of a request come in the order translation
\* call, inference POSTs, directory creation, file write, render; a response
\* with image_path exists only once the request is done, after its generation
\* and its file write succeeded, and its URL is that of the file just written.
C14_OrderAndReference ==
  /\ \A i, j \in 1..Len(trace) : i < j => StageOf(trace[i].op) <= StageOf(trace[j].op)
  /\ ("image_path" \in rendered.keys) =>
       /\ pc = "done"
       /\ generated_image.some
       /\ LastPost.n = 200
       /\ \E i \in At("save") : trace[i].k = "ok" /\ trace[i].s = image_path
       /\ [path |-> image_path, image |-> generated_image.v] \in files
       /\ StaticFile(rendered.image_path) = image_path

\* C15 (as amended): a request that is past its translation call (or made
\* none) eventually returns, given that each inference call answers or times
\* out: none stays forever in Generating or Saving.  A request can stay
\* forever in Translating, whose call has no timeout.
C15_ReturnsOnceTranslated ==
  (pc \in {"post1", "sleep", "post2", "makedirs", "save"}) ~> (pc = "done")

\* C15 witness: a request went through the retry, the save and the render.
C15_Witness ==
  /\ pc = "done"
  /\ Len(Posts) = 2
  /\ At("translate_done") # {}
  /\ "image_path" \in rendered.keys

\* C15 (as stated): every started request eventually returns, given that each
\* inference call answers or times out.
C15_EveryRequestReturns ==
  (pc \in HandlerPcs \ {"idle", "done"}) ~> (pc = "done")

\* Two raw texts agree on their first 10 characters.
SamePrefix(a, b) ==
  \A k \in 1..10 :
    /\ (k <= Len(a)) <=> (k <= Len(b))
    /\ (k <= Len(a) /\ k <= Len(b)) => a[k] = b[k]

\* C16: two successful requests write to the same path exactly when their raw
\* texts share the first 10 characters and their timestamps are the same
\* second; then both responses carry the same URL and the later image
\* replaces the earlier one on disk, which keeps one file per path.
C16_SamePathIffSamePrefixAndSecond ==
  /\ \A i, j \in 1..Len(writes) :
       i < j =>
         LET same == SamePrefix(writes[i].raw, writes[j].raw) /\ writes[i].ts = writes[j].ts
         IN /\ same <=> (writes[i].path = writes[j].path)
            /\ same => (writes[i].url = writes[j].url)
  /\ \A i \in 1..Len(writes) :
       LET later == {j \in 1..Len(writes) : j > i /\ writes[j].path = writes[i].path}
       IN [path |-> writes[i].path, image |-> writes[i].image] \in files
            <=> (later = {} \/ \E j \in later : writes[j].image = writes[i].image
                                               /\ \A m \in later : m <= j)
  /\ Cardinality(files) = Cardinality({writes[i].path : i \in 1..Len(writes)})

\* C16 witness: two different texts with one prefix, saved in one second; the
\* second image has replaced the first.
C16_Witness ==
  /\ Len(writes) = 2
  /\ writes[1].raw = T_hello
  /\ writes[2].raw = T_hello2
  /\ writes[1].ts = writes[2].ts
  /\ writes[1].image = "PNG_A"
  /\ writes[2].image = "PNG_B"
  /\ files = {[path |-> writes[2].path, image |-> "PNG_B"]}

\* The successful image-file writes of this request.
SavesOk == {i \in At("save") : trace[i].k = "ok"}

\* C17: a request writes at most one image file, and only after
\* generate_image returned an image; a request that ends in an error because
\* the text field is missing, the translation failed or the generation failed
\* leaves the set of saved files as it found it.
C17_OneWriteAfterImage ==
  /\ Cardinality(At("save")) <= 1
  /\ \A i \in At("save") :
       /\ generated_image.some
       /\ \E j \in 1..(i - 1) :
            trace[j].op = "post" /\ trace[j].n = 200 /\ trace[j].k = generated_image.v
  /\ (SavesOk = {}) => files = files_before
  /\ (SavesOk # {}) =>
       files = {f \in files_before : f.path # image_path}
                 \cup {[path |-> image_path, image |-> generated_image.v]}
  /\ (pc \in HandlerPcs \ {"idle"}
        /\ \/ ~form.text.some
           \/ \E i \in At("translate_done") : trace[i].k # ""
           \/ Posts # <<>> /\ pc = "done"
                /\ ~(LastPost.n = 200 /\ LastPost.k \in ImageBodies))
       => (At("save") = {} /\ files = files_before)

\* C17 witness: a generation failure after a retry, with a file of an earlier
\* request on disk.
C17_Witness ==
  /\ pc = "done"
  /\ Len(Posts) = 2
  /\ LastPost.n = 500
  /\ files # {}
  /\ rendered = RenderError(MsgGenerate)

====
